---- MODULE Spec2Model ----
(***************************************************************************)
(* Model of the simulation core of crash-junction (src/main.js): the       *)
(* session state (score, timeLeft, gameState, lastTick), the four traffic  *)
(* lights, the vehicle list and the explosion list, driven by the frame    *)
(* callback (animate), the spawn interval, pointerdown and the restart     *)
(* button.                                                                 *)
(*                                                                         *)
(* Lengths are in tenths of a world unit (speed 0.2 is 2, spawnDist 70 is  *)
(* 700), so every position the program produces is an integer; the         *)
(* rounding of the IEEE additions is abstracted (positions are the exact   *)
(* multiples of 0.2).  Times are in milliseconds.                          *)
(***************************************************************************)
EXTENDS Integers, Sequences, FiniteSets, TLC

VARIABLES gameState, score, timeLeft, horizontalBlue, vehicles, explosions,
          events, threw, lastOp, nextId, budget

vars == <<gameState, score, timeLeft, horizontalBlue, vehicles, explosions,
          events, threw, lastOp, nextId, budget>>

(* ------------------------------ bounds --------------------------------- *)
MaxFrames == 3
MaxEvents == 2
CapFrames == 1
RedEvents == 1

(* --------------------------- program constants ------------------------- *)
targetScore == 2000
initialTime == 60
tickPeriod == 1000
maxVehicles == 60
crashScore == 100
roadWidthV == 160
roadWidthH == 240
gridSpacing == 200
spawnDist == 700
speed == 2
despawnMargin == 100
followGap == 50
laneTolerance == 10
stopBuffer == 20
lightTolerance == 50
bodyWidth == 20
bodyLength == 40
blipSize == 40
explosionLife == 50

Abs(n) == IF n < 0 THEN -n ELSE n

(* trafficLights[l]: the position of the light group of intersection l,    *)
(* (x + roadWidthV/2 + 1, z - roadWidthH/2 - 1) for the four centres in    *)
(* creation order: top-left, top-right, bottom-left, bottom-right.         *)
createTrafficLight(x, z) ==
    [x |-> x + roadWidthV \div 2 + 10, z |-> z - roadWidthH \div 2 - 10]

trafficLights ==
    << createTrafficLight(-gridSpacing, -gridSpacing),
       createTrafficLight(gridSpacing, -gridSpacing),
       createTrafficLight(-gridSpacing, gridSpacing),
       createTrafficLight(gridSpacing, gridSpacing) >>

(* The 8 entry points.                                                     *)
spawners ==
    << [x |-> -gridSpacing + roadWidthV \div 4, z |-> -spawnDist, moveAxis |-> "z", dir |->  1],
       [x |-> -gridSpacing - roadWidthV \div 4, z |->  spawnDist, moveAxis |-> "z", dir |-> -1],
       [x |->  gridSpacing + roadWidthV \div 4, z |-> -spawnDist, moveAxis |-> "z", dir |->  1],
       [x |->  gridSpacing - roadWidthV \div 4, z |->  spawnDist, moveAxis |-> "z", dir |-> -1],
       [x |-> -spawnDist, z |-> -gridSpacing - roadWidthH \div 4, moveAxis |-> "x", dir |->  1],
       [x |->  spawnDist, z |-> -gridSpacing + roadWidthH \div 4, moveAxis |-> "x", dir |-> -1],
       [x |-> -spawnDist, z |->  gridSpacing - roadWidthH \div 4, moveAxis |-> "x", dir |->  1],
       [x |->  spawnDist, z |->  gridSpacing + roadWidthH \div 4, moveAxis |-> "x", dir |-> -1] >>

FindLightFirst(tlX, tlZ) == 1

(* Array.prototype.find over trafficLights: the first light within the     *)
(* tolerance on both coordinates, 0 (undefined) when there is none.        *)
FindLight(tlX, tlZ) ==
    LET hits == {l \in 1..4 : /\ Abs(trafficLights[l].x - tlX) < lightTolerance
                              /\ Abs(trafficLights[l].z - tlZ) < lightTolerance}
    IN IF hits = {} THEN 0 ELSE CHOOSE l \in hits : \A m \in hits : l <= m

(* The route spawnVehicle computes for entry point s: two crossings in     *)
(* travel order, each with its light, stop line and intersection centre.   *)
Route(s) ==
    LET sp == spawners[s]
        first == IF sp.dir > 0 THEN -gridSpacing ELSE gridSpacing
        second == IF sp.dir > 0 THEN gridSpacing ELSE -gridSpacing
    IN IF sp.moveAxis = "z"
       THEN LET x == IF sp.x > 0 THEN gridSpacing ELSE -gridSpacing
                stopDist == roadWidthH \div 2 + stopBuffer
                tlX == x + roadWidthV \div 2 + 10
                tlZ1 == first - roadWidthH \div 2 - 10
                tlZ2 == second - roadWidthH \div 2 - 10
            IN << [light |-> FindLight(tlX, tlZ1),
                   stopLine |-> first - stopDist * sp.dir,
                   intersectionCenter |-> first],
                  [light |-> FindLight(tlX, tlZ2),
                   stopLine |-> second - stopDist * sp.dir,
                   intersectionCenter |-> second] >>
       ELSE LET z == IF sp.z > 0 THEN gridSpacing ELSE -gridSpacing
                stopDist == roadWidthV \div 2 + stopBuffer
                tlZ == z - roadWidthH \div 2 - 10
                tlX1 == first + roadWidthV \div 2 + 10
                tlX2 == second + roadWidthV \div 2 + 10
            IN << [light |-> FindLight(tlX1, tlZ),
                   stopLine |-> first - stopDist * sp.dir,
                   intersectionCenter |-> first],
                  [light |-> FindLight(tlX2, tlZ),
                   stopLine |-> second - stopDist * sp.dir,
                   intersectionCenter |-> second] >>

(* A vehicle is the group spawnVehicle builds: id stands for the object's  *)
(* identity and spawner for the entry point drawn; pos is the coordinate   *)
(* along the travel axis and ortho the other one, which is the entry       *)
(* point's and never changes; axis, dir, passedLights, checkLights and     *)
(* active are its userData (active is undefined until the collision check  *)
(* sets it).                                                               *)
NewVehicle(s, id) ==
    [id |-> id, spawner |-> s,
     pos |-> IF spawners[s].moveAxis = "x" THEN spawners[s].x ELSE spawners[s].z,
     ortho |-> IF spawners[s].moveAxis = "x" THEN spawners[s].z ELSE spawners[s].x,
     axis |-> spawners[s].moveAxis, dir |-> spawners[s].dir,
     passedLights |-> 0, checkLights |-> Route(s), active |-> FALSE]

Axis(v) == v.axis
Dir(v) == v.dir
Ortho(v) == v.ortho
PosX(v) == IF Axis(v) = "x" THEN v.pos ELSE v.ortho
PosZ(v) == IF Axis(v) = "z" THEN v.pos ELSE v.ortho

(* Array.prototype.splice(i, 1)                                            *)
RemoveAt(s, i) == SubSeq(s, 1, i - 1) \o SubSeq(s, i + 1, Len(s))

(* ------------------------ traffic lights ------------------------------- *)
(* lightIsBlueForUs: the light lets an axis go.                            *)
lightIsBlueForUs(axis, blue) == IF axis = "x" THEN blue ELSE ~blue

ToggleLightStuck(blue) == blue

ToggleLight(blue) == ~blue

(* ------------------------- motion (per vehicle) ------------------------ *)
(* The crossing the vehicle is approaching, read only when                 *)
(* passedLights < checkLights.length.                                      *)
nextLightData(v) == v.checkLights[v.passedLights + 1]

distToStop(v) == (nextLightData(v).stopLine - v.pos) * Dir(v)

PastCenterOrAt(v) ==
    /\ v.passedLights < Len(v.checkLights)
    /\ (v.pos - nextLightData(v).intersectionCenter) * Dir(v) >= 0

PastCenter(v) ==
    /\ v.passedLights < Len(v.checkLights)
    /\ (v.pos - nextLightData(v).intersectionCenter) * Dir(v) > 0

InStopWindowClosed(d) == d > 0 /\ d <= speed * 2

InStopWindowNarrow(d) == d > 0 /\ d < speed

InStopWindow(d) == d > 0 /\ d < speed * 2

(* shouldStop after the light block of the frame.                          *)
LightStop(v, blue) ==
    /\ v.passedLights < Len(v.checkLights)
    /\ ~PastCenter(v)
    /\ ~lightIsBlueForUs(Axis(v), blue[nextLightData(v).light])
    /\ InStopWindow(distToStop(v))

(* The car-following scan: vB is another vehicle of the list with the same *)
(* axis and direction, in the same lane, physically ahead of vehicle i;    *)
(* dist is its forward distance.                                           *)
SameLane(v, vB) ==
    /\ Axis(v) = Axis(vB)
    /\ Dir(v) = Dir(vB)
    /\ Abs(Ortho(v) - Ortho(vB)) < laneTolerance

ForwardDist(v, vB) == (vB.pos - v.pos) * Dir(v)

IsAhead(vs, i, j) ==
    /\ j # i
    /\ SameLane(vs[i], vs[j])
    /\ ForwardDist(vs[i], vs[j]) > 0

(* vehicleAheadDistance < 5: the minimum of the forward distances is below *)
(* the gap exactly when one of them is (Infinity when nothing is ahead).   *)
FollowStopClosed(vs, i) ==
    \E j \in 1..Len(vs) : IsAhead(vs, i, j) /\ ForwardDist(vs[i], vs[j]) <= followGap

FollowStop(vs, i) ==
    \E j \in 1..Len(vs) : IsAhead(vs, i, j) /\ ForwardDist(vs[i], vs[j]) < followGap

OutOfBoundsLate(pos) == Abs(pos) > spawnDist + despawnMargin + speed

OutOfBounds(pos) == Abs(pos) > spawnDist + despawnMargin

(* One iteration of the motion loop on index i of the current list.        *)
MoveOne(vs, i, blue) ==
    LET v == vs[i]
        passed == IF PastCenter(v) THEN v.passedLights + 1 ELSE v.passedLights
        shouldStop == LightStop(v, blue) \/ FollowStop(vs, i)
    IN CHOOSE r \in
         {IF OutOfBounds(newPos) THEN RemoveAt(vs, i)
          ELSE [vs EXCEPT ![i] = [v EXCEPT !.passedLights = passed, !.pos = newPos]] :
             newPos \in {IF shouldStop THEN v.pos ELSE v.pos + speed * Dir(v)}} : TRUE

(* for (i = vehicles.length - 1; i >= 0; i--): positions are written in    *)
(* place, so the scan of a later iteration reads the updated ones.  An     *)
(* iteration splices out at most its own index, so i stays within the      *)
(* list.  (The list an iteration leaves is bound to nv before the next     *)
(* iteration reads it.)                                                    *)
RECURSIVE MoveLoop(_, _, _)
MoveLoop(vs, i, blue) ==
    IF i < 1 \/ i > Len(vs) THEN vs
    ELSE CHOOSE r \in {MoveLoop(nv, k, blue) : nv \in {MoveOne(vs, i, blue)}, k \in {i - 1}} : TRUE

MoveVehicles(vs, blue) == MoveLoop(vs, Len(vs), blue)

(* --------------------------- collision pass ---------------------------- *)
Max(a, b) == IF a > b THEN a ELSE b

(* Box3.setFromObject(vehicleGroup): the union of the boxes of the group's *)
(* children, the body mesh (2 x 1 x 4, turned for axis x) and the minimap  *)
(* blip (4 x 1 x 4 at y = 10).  Every vehicle is at y = 0.5, so the boxes  *)
(* always overlap in y and only x and z are kept.                          *)
BodyHalfX(v) == IF Axis(v) = "x" THEN bodyLength \div 2 ELSE bodyWidth \div 2
BodyHalfZ(v) == IF Axis(v) = "x" THEN bodyWidth \div 2 ELSE bodyLength \div 2
BoxHalfX(v) == Max(BodyHalfX(v), blipSize \div 2)
BoxHalfZ(v) == Max(BodyHalfZ(v), blipSize \div 2)

setFromObject(v) ==
    [minX |-> PosX(v) - BoxHalfX(v), maxX |-> PosX(v) + BoxHalfX(v),
     minZ |-> PosZ(v) - BoxHalfZ(v), maxZ |-> PosZ(v) + BoxHalfZ(v)]

(* Box3.intersectsBox: touching boxes intersect.                           *)
intersectsBox(a, b) ==
    ~(b.maxX < a.minX \/ b.minX > a.maxX \/ b.maxZ < a.minZ \/ b.minZ > a.maxZ)

(* vA.position.clone().lerp(vB.position, 0.5)                              *)
Midpoint(vA, vB) ==
    [x |-> PosX(vA) + (PosX(vB) - PosX(vA)) \div 2,
     z |-> PosZ(vA) + (PosZ(vB) - PosZ(vA)) \div 2]

(* createExplosion(position): 15 particles and a flash light, all with     *)
(* life 1.0; kept as one entry, life counted in steps of 0.02.             *)
createExplosion(position) == [x |-> position.x, z |-> position.z, life |-> explosionLife]

(* The vehicles the inner loop of index i may pair with: lower index,      *)
(* active flag set, boxes intersecting.                                    *)
Overlapping(vs, i) ==
    {j \in 1..(i - 1) : /\ vs[j].active
                        /\ intersectsBox(setFromObject(vs[i]), setFromObject(vs[j]))}

(* The inner loop runs j from i - 1 down and stops at the first hit.       *)
FirstHit(hits) == CHOOSE j \in hits : \A k \in hits : k <= j

ScoreAfterCrash(sc) == sc + crashScore

SpliceOne(vs, i, j) == RemoveAt(vs, i)

(* The splices of a collision: index i, then index j < i.                  *)
SpliceBoth(vs, i, j) == RemoveAt(RemoveAt(vs, i), j)

(* for (i = vehicles.length - 1; i >= 0; i--) of the collision check.  st  *)
(* is [vs, score, explosions, events, threw]; events lists the collisions  *)
(* of the frame, each with the two vehicles as they were and the position  *)
(* handed to createExplosion.  The loop index is not                       *)
(* adjusted after the two splices: reading vehicles[i] beyond the end      *)
(* gives undefined and vA.userData throws, which ends the frame callback.  *)
Crash(st, vs1, i, j) ==
    LET mid == Midpoint(vs1[i], vs1[j])
    IN [vs |-> SpliceBoth(vs1, i, j),
        score |-> ScoreAfterCrash(st.score),
        explosions |-> Append(st.explosions, createExplosion(mid)),
        events |-> Append(st.events, [vA |-> vs1[i], vB |-> vs1[j], at |-> mid]),
        threw |-> FALSE]

(* One iteration of the outer loop: vs1 is the list once vA.userData.active *)
(* is set, hits the indices the inner loop can stop at (it reads the flag   *)
(* of lower indices only).                                                  *)
CollideOne(st, i) ==
    CHOOSE r \in UNION
      {IF hits = {} THEN {[st EXCEPT !.vs = vs1]}
       ELSE {Crash(st, vs1, i, j) : j \in {FirstHit(hits)}} :
          vs1 \in {[st.vs EXCEPT ![i].active = TRUE]},
          hits \in {Overlapping(st.vs, i)}} : TRUE

RECURSIVE CollideLoop(_, _)
CollideLoop(st, i) ==
    IF i < 1 THEN st
    ELSE IF i > Len(st.vs) THEN [st EXCEPT !.threw = TRUE]
    ELSE CHOOSE r \in {CollideLoop(n, k) : n \in {CollideOne(st, i)}, k \in {i - 1}} : TRUE

CollisionCheck(vs, sc, ex) ==
    CollideLoop([vs |-> vs, score |-> sc, explosions |-> ex,
                 events |-> <<>>, threw |-> FALSE], Len(vs))

(* updateExplosions: life -= 0.02, removed once life <= 0.                 *)
updateExplosions(ex) ==
    SelectSeq([k \in 1..Len(ex) |-> [ex[k] EXCEPT !.life = @ - 1]],
              LAMBDA e : e.life > 0)

(* ------------------------------ session -------------------------------- *)
(* The 1-second check of animate: now - lastTick >= 1000.                  *)
TickDueNever(elapsed) == FALSE

TickDue(elapsed) == elapsed >= tickPeriod

OutcomeStrict(sc) == IF sc > targetScore THEN "clear" ELSE "over"

Outcome(sc) == IF sc >= targetScore THEN "clear" ELSE "over"

TimeUpLate(t) == t < 0

TimeUp(t) == t <= 0

(* ------------------------------ actions -------------------------------- *)
(* Date.now() belongs to the environment: a frame is given the value of    *)
(* now - lastTick it reads, less than a period, exactly one period, or two *)
(* and a half periods.  lastTick = now then restarts the measure.          *)
Elapsed == {500, 1000, 2500}

(* lastOp: the callback that ran last, its input, and the gameState it     *)
(* found.                                                                  *)
Op(name, arg) == [op |-> name, arg |-> arg, from |-> gameState]

LogicRunsAlways(gs) == TRUE

(* if (gameState === 'playing') in front of the logic updates, read after  *)
(* the timer check.                                                        *)
LogicRuns(gs) == gs = "playing"

(* animate(): the timer check, then, while still playing, the motion loop  *)
(* and the collision check, then updateExplosions (not reached when the    *)
(* collision check threw).  The result is the state the callback leaves.   *)
animate(gs, sc, t, blue, vs, ex, elapsed) ==
    LET tick == gs = "playing" /\ TickDue(elapsed)
        time1 == IF tick THEN t - 1 ELSE t
        state1 == IF tick /\ TimeUp(time1) THEN Outcome(sc) ELSE gs
        still == [vs |-> vs, score |-> sc, explosions |-> ex,
                  events |-> <<>>, threw |-> FALSE]
    IN CHOOSE r \in
         {[gameState |-> state1, timeLeft |-> time1, score |-> c.score,
           vehicles |-> c.vs, events |-> c.events, threw |-> c.threw,
           explosions |-> IF c.threw THEN c.explosions
                          ELSE updateExplosions(c.explosions)] :
            c \in (IF LogicRuns(state1)
                   THEN {CollisionCheck(moved, sc, ex) : moved \in {MoveVehicles(vs, blue)}}
                   ELSE {still})} : TRUE

(* What one run of the frame callback does to the program's state.         *)
FrameStep(elapsed) ==
    /\ \E r \in {animate(gameState, score, timeLeft, horizontalBlue,
                          vehicles, explosions, elapsed)} :
          /\ gameState' = r.gameState
          /\ timeLeft' = r.timeLeft
          /\ score' = r.score
          /\ vehicles' = r.vehicles
          /\ events' = r.events
          /\ threw' = r.threw
          /\ explosions' = r.explosions
    /\ lastOp' = Op("frame", elapsed)
    /\ UNCHANGED <<horizontalBlue, nextId>>

Frame(elapsed) ==
    LET tick == gameState = "playing" /\ TickDue(elapsed)
    IN /\ budget.frame > 0
       /\ tick => budget.event > 0
       /\ budget' = [frame |-> budget.frame - 1,
                     event |-> IF tick THEN budget.event - 1 ELSE budget.event]
       /\ FrameStep(elapsed)

AnimationFrame == \E elapsed \in Elapsed : Frame(elapsed)

CanSpawnAnyState == Len(vehicles) < maxVehicles

CanSpawnOffByOne == gameState = "playing" /\ Len(vehicles) <= maxVehicles

(* The setInterval callback; spawnVehicle draws one of the 8 entry points  *)
(* (s = 0: the callback's condition is false and nothing is drawn).        *)
CanSpawn == gameState = "playing" /\ Len(vehicles) < maxVehicles

spawnVehicle(vs, s, id) == Append(vs, NewVehicle(s, id))

SpawnTick(s) ==
    /\ budget.event > 0
    /\ budget' = [budget EXCEPT !.event = @ - 1]
    /\ vehicles' = IF s = 0 THEN vehicles ELSE spawnVehicle(vehicles, s, nextId)
    /\ nextId' = IF s = 0 THEN nextId ELSE nextId + 1
    /\ lastOp' = Op("spawn", s)
    /\ events' = <<>>
    /\ threw' = FALSE
    /\ UNCHANGED <<gameState, score, timeLeft, horizontalBlue, explosions>>

SpawnInterval ==
    \E s \in (IF CanSpawn THEN 1..Len(spawners) ELSE {0}) : SpawnTick(s)

(* pointerdown: hit is the light whose hitbox the ray meets first, 0 when  *)
(* it meets none.                                                          *)
PointerDown(hit) ==
    /\ budget.event > 0
    /\ budget' = [budget EXCEPT !.event = @ - 1]
    /\ horizontalBlue' =
          IF gameState = "playing" /\ hit # 0
          THEN [horizontalBlue EXCEPT ![hit] = ToggleLight(horizontalBlue[hit])]
          ELSE horizontalBlue
    /\ lastOp' = Op("pointer", hit)
    /\ events' = <<>>
    /\ threw' = FALSE
    /\ UNCHANGED <<gameState, score, timeLeft, vehicles, explosions, nextId>>

Pointer == \E hit \in 0..4 : PointerDown(hit)

ResetLightsKeep(blue) == blue

(* The restart button's click handler.                                     *)
ResetLights(blue) == [l \in DOMAIN blue |-> TRUE]

Restart ==
    /\ budget.event > 0
    /\ budget' = [budget EXCEPT !.event = @ - 1]
    /\ score' = 0
    /\ timeLeft' = initialTime
    /\ gameState' = "playing"
    /\ vehicles' = <<>>
    /\ explosions' = <<>>
    /\ horizontalBlue' = ResetLights(horizontalBlue)
    /\ lastOp' = Op("restart", 0)
    /\ events' = <<>>
    /\ threw' = FALSE
    /\ UNCHANGED nextId

Next == AnimationFrame \/ SpawnInterval \/ Pointer \/ Restart

(* --------------------------- initial states ---------------------------- *)
(* What a run still explores: frame callbacks, and events of the           *)
(* environment (a spawn-interval callback, a pointerdown, a restart click, *)
(* a second of wall-clock time running out).                               *)
FullBudget == [frame |-> MaxFrames, event |-> MaxEvents]

AllBlue == [l \in 1..4 |-> TRUE]

(* A vehicle of entry point s that has been through the collision pass of *)
(* a frame (active is set), now at pos with passed crossings behind it.    *)
Vehicle(id, s, pos, passed) ==
    [NewVehicle(s, id) EXCEPT !.pos = pos, !.passedLights = passed, !.active = TRUE]

RECURSIVE Fresh(_, _)
Fresh(n, s) == IF n = 0 THEN <<>> ELSE Append(Fresh(n - 1, s), NewVehicle(s, n))

StartWith(sc, t, blue, vs, b) ==
    /\ gameState = "playing"
    /\ score = sc
    /\ timeLeft = t
    /\ horizontalBlue = blue
    /\ vehicles = vs
    /\ explosions = <<>>
    /\ events = <<>>
    /\ threw = FALSE
    /\ lastOp = [op |-> "load", arg |-> 0, from |-> "playing"]
    /\ nextId = Len(vs) + 1
    /\ budget = b

Start(sc, t, blue, vs) == StartWith(sc, t, blue, vs, FullBudget)

(* The state after the script has loaded.                                  *)
Init == Start(0, initialTime, AllBlue, <<>>)

Spec == Init /\ [][Next]_vars

(* Two pairs on crossing paths, each one motion step short of overlapping: *)
(* entry points 1 and 5 at the top-left intersection, 4 and 8 at the       *)
(* bottom-right one.  All four went over their stop lines while their      *)
(* light let them.                                                         *)
CrossVehicles ==
    << Vehicle(1, 1, -304, 0), Vehicle(2, 5, -204, 0),
       Vehicle(3, 4, 304, 0), Vehicle(4, 8, 204, 0) >>

InitCross == Start(0, initialTime, AllBlue, CrossVehicles)

SpecCross == InitCross /\ [][Next]_vars

(* Vehicles around the decisions of the light block: entry point 1 two     *)
(* steps before its first stop line (red for axis z), entry point 6 one    *)
(* step before its first stop line (green for axis x until light 2 is      *)
(* toggled), entry point 3 on the centre of its first crossing, entry      *)
(* point 4 on the centre of its second crossing.                           *)
StopVehicles ==
    << Vehicle(1, 1, -344, 0), Vehicle(2, 6, 302, 0),
       Vehicle(3, 3, -200, 0), Vehicle(4, 4, -200, 1) >>

InitStop == Start(0, initialTime, AllBlue, StopVehicles)

SpecStop == InitStop /\ [][Next]_vars

(* The last second of a session, one collision short of the target or on   *)
(* it, with a pair on crossing paths about to overlap.                     *)
EndVehicles == << Vehicle(1, 1, -302, 0), Vehicle(2, 5, -202, 0) >>

InitEnd ==
    \E sc \in {targetScore - crashScore, targetScore} :
        Start(sc, 1, AllBlue, EndVehicles)

SpecEnd == InitEnd /\ [][Next]_vars

(* One vehicle short of the cap in the last second of a session: 59       *)
(* frames a second apart on an empty road, then 59 spawn callbacks at      *)
(* entry point 1 with no frame in between (the page hidden: no animation   *)
(* frames, the interval still fires).  A frame on a full list is long to   *)
(* evaluate, so this scenario explores CapFrames of them.                  *)
InitCap ==
    StartWith(0, 1, AllBlue, Fresh(maxVehicles - 1, 1),
              [frame |-> CapFrames, event |-> MaxEvents])

SpecCap == InitCap /\ [][Next]_vars

(* Traffic along lanes, oldest vehicle first: entry point 7 one step from  *)
(* leaving the map, entry point 1 held one step before its first stop line *)
(* (red for axis z) with the next vehicle of its lane 5 units behind, and  *)
(* entry point 3 one step after its spawn.                                 *)
FlowVehicles ==
    << Vehicle(1, 7, 798, 2), Vehicle(2, 1, -342, 0),
       Vehicle(3, 1, -392, 0), Vehicle(4, 3, -698, 0) >>

InitFlow == Start(0, initialTime, AllBlue, FlowVehicles)

SpecFlow == InitFlow /\ [][Next]_vars

(* A session left to run: animate asks for its next frame first thing      *)
(* (requestAnimationFrame, before any statement that can throw), so frames *)
(* keep coming without a bound, and frames that find at least a period     *)
(* elapsed keep coming too; the restart button is not clicked.  The road   *)
(* is empty and the interval callback left out: the timer check reads      *)
(* neither the vehicles nor the score of the running frame.                *)
LiveFrame == \E elapsed \in Elapsed : FrameStep(elapsed) /\ UNCHANGED budget

TickFrame ==
    \E elapsed \in {e \in Elapsed : e >= tickPeriod} :
        FrameStep(elapsed) /\ UNCHANGED budget

LiveNext == LiveFrame \/ Pointer

SpecLive == Init /\ [][LiveNext]_vars /\ WF_vars(TickFrame)

(* Two vehicles just added at their entry points, one per axis, each with  *)
(* the light of its first crossing red for its axis: entry point 1 (axis   *)
(* z, light 1 still horizontalBlue) and entry point 6 (axis x, light 2     *)
(* toggled once by the player), in the last second of a session.  Frames  *)
(* keep coming as in SpecLive, so both vehicles run the whole way from the *)
(* entry point; the player still clicks RedEvents times.                   *)
RedLights == [AllBlue EXCEPT ![2] = ToggleLight(AllBlue[2])]

RedVehicles == << NewVehicle(1, 1), NewVehicle(6, 2) >>

InitRed ==
    StartWith(0, 1, RedLights, RedVehicles,
              [frame |-> MaxFrames, event |-> RedEvents])

SpecRed == InitRed /\ [][LiveNext]_vars

(* ------------------------------ properties ----------------------------- *)
Ids(vs) == {vs[k].id : k \in 1..Len(vs)}

ById(vs, id) == vs[CHOOSE k \in 1..Len(vs) : vs[k].id = id]

EventIds(ev) == UNION {{ev[k].vA.id, ev[k].vB.id} : k \in 1..Len(ev)}

Crossing(v) == v.checkLights[v.passedLights + 1]

(* C1: when the timer decrement brings timeLeft to 0 while playing, the    *)
(* state becomes clear if score >= 2000 and over otherwise, in that step;  *)
(* the state leaves playing in no other way.                               *)
C1_TimerDecidesOutcome ==
    [][ /\ (gameState = "playing" /\ timeLeft > 0 /\ timeLeft' = 0)
            => gameState' = (IF score >= 2000 THEN "clear" ELSE "over")
        /\ (gameState = "playing" /\ gameState' # "playing")
            => /\ lastOp'.op = "frame"
               /\ timeLeft' = timeLeft - 1
               /\ timeLeft' = 0 ]_vars

C1_Witness ==
    /\ lastOp.op = "frame" /\ lastOp.from = "playing"
    /\ gameState = "clear" /\ score = 2000 /\ timeLeft = 0

(* C2: while the state is clear or over, a frame, a spawn-interval         *)
(* callback or a pointer event changes neither score, timeLeft, the        *)
(* vehicle list (positions and passedLights included) nor any light.       *)
C2_FrozenOutsidePlaying ==
    [][ (gameState \in {"clear", "over"} /\ lastOp'.op \in {"frame", "spawn", "pointer"})
            => UNCHANGED <<gameState, score, timeLeft, vehicles, horizontalBlue>> ]_vars

C2_Witness ==
    /\ gameState \in {"clear", "over"} /\ lastOp.from = gameState
    /\ lastOp.op = "spawn"
    /\ vehicles # <<>>

(* C3: a restart in any state gives score 0, timeLeft 60, playing, no      *)
(* vehicle, no effect and all four lights horizontalBlue; a second restart *)
(* right after it changes none of these.                                   *)
C3_RestartResets ==
    [][ /\ lastOp'.op = "restart"
            => /\ score' = 0 /\ timeLeft' = 60 /\ gameState' = "playing"
               /\ vehicles' = <<>> /\ explosions' = <<>>
               /\ \A l \in 1..4 : horizontalBlue'[l] = TRUE
        /\ (lastOp.op = "restart" /\ lastOp'.op = "restart")
            => UNCHANGED <<score, timeLeft, gameState, vehicles, explosions,
                           horizontalBlue>> ]_vars

C3_Witness ==
    /\ lastOp.op = "restart" /\ lastOp.from \in {"clear", "over"}
    /\ nextId > 1

(* C4: every collision of a frame adds exactly 100 to score, removes       *)
(* exactly its two vehicles and no other vehicle, and is emitted once,     *)
(* at the midpoint of the two positions; score changes otherwise only by   *)
(* restart.                                                                *)
C4_CollisionEffect ==
    [][ /\ lastOp'.op = "frame"
            => /\ score' = score + 100 * Len(events')
               /\ \A k \in 1..Len(events') :
                    LET e == events'[k]
                    IN /\ e.vA.id # e.vB.id
                       /\ {e.vA.id, e.vB.id} \subseteq Ids(vehicles)
                       /\ {e.vA.id, e.vB.id} \cap Ids(vehicles') = {}
                       /\ 2 * e.at.x = PosX(e.vA) + PosX(e.vB)
                       /\ 2 * e.at.z = PosZ(e.vA) + PosZ(e.vB)
                       /\ \A m \in 1..Len(events') :
                            m # k => {e.vA.id, e.vB.id}
                                       \cap {events'[m].vA.id, events'[m].vB.id} = {}
               /\ \A id \in Ids(vehicles) \ Ids(vehicles') :
                    \/ id \in EventIds(events')
                    \/ Abs(ById(vehicles, id).pos) + speed > 800
               /\ Cardinality(Ids(vehicles')) = Len(vehicles')
        /\ lastOp'.op = "restart" => score' = 0
        /\ lastOp'.op \notin {"frame", "restart"} => score' = score /\ events' = <<>> ]_vars

C4_Witness == lastOp.op = "frame" /\ Len(events) = 2 /\ score = 200

(* C5: no collision is ever detected between two vehicles that share axis, *)
(* direction and lane.                                                     *)
C5_NoSameLaneCollision ==
    \A k \in 1..Len(events) :
        ~( /\ Axis(events[k].vA) = Axis(events[k].vB)
           /\ Dir(events[k].vA) = Dir(events[k].vB)
           /\ Ortho(events[k].vA) = Ortho(events[k].vB) )

(* C6: a spawn-interval callback appends exactly one vehicle, at one of    *)
(* the 8 entry points with passedLights 0, when the state is playing and   *)
(* fewer than 60 vehicles are listed, and changes nothing otherwise; the   *)
(* list never grows otherwise and never holds more than 60 vehicles.       *)
C6_SpawnCap ==
    /\ [](Len(vehicles) <= 60)
    /\ [][ /\ lastOp'.op = "spawn"
               => IF gameState = "playing" /\ Len(vehicles) < 60
                  THEN /\ Len(vehicles') = Len(vehicles) + 1
                       /\ SubSeq(vehicles', 1, Len(vehicles)) = vehicles
                       /\ LET n == vehicles'[Len(vehicles')]
                          IN /\ n.passedLights = 0
                             /\ n.id \notin Ids(vehicles)
                             /\ \E s \in 1..8 :
                                  /\ PosX(n) = spawners[s].x
                                  /\ PosZ(n) = spawners[s].z
                                  /\ Axis(n) = spawners[s].moveAxis
                                  /\ Dir(n) = spawners[s].dir
                  ELSE vehicles' = vehicles
           /\ lastOp'.op # "spawn" => Len(vehicles') <= Len(vehicles) ]_vars

C6_Witness ==
    /\ lastOp.op = "spawn" /\ lastOp.arg = 0
    /\ gameState = "playing" /\ Len(vehicles) = 60

(* C7: a light changes only by a pointer event on it while playing, which  *)
(* flips it and no other light, or by restart, which sets it; and each     *)
(* light lets exactly one axis go: x iff horizontalBlue, z iff not.        *)
C7_LightsOnlyByPlayer ==
    /\ [](\A l \in 1..4 :
            /\ lightIsBlueForUs("x", horizontalBlue[l]) = horizontalBlue[l]
            /\ lightIsBlueForUs("z", horizontalBlue[l]) = ~horizontalBlue[l])
    /\ [][ \A l \in 1..4 :
             IF lastOp'.op = "restart" THEN horizontalBlue'[l] = TRUE
             ELSE IF lastOp'.op = "pointer" /\ lastOp'.arg = l /\ gameState = "playing"
                  THEN horizontalBlue'[l] = ~horizontalBlue[l]
                  ELSE horizontalBlue'[l] = horizontalBlue[l] ]_vars

C7_Witness ==
    /\ lastOp.op = "frame" /\ events # <<>>
    /\ \E l \in 1..4 : ~horizontalBlue[l]

(* C8: in a frame that runs the motion loop, a vehicle that has not passed *)
(* the centre of its next crossing, and has no vehicle of its lane in the  *)
(* list, keeps its position exactly when that crossing's light is not      *)
(* green for its axis and 0 < distance to the stop line < 2 x speed;       *)
(* otherwise it advances by speed x dir.                                   *)
C8_Alone(v) == \A k \in 1..Len(vehicles) :
                  vehicles[k].id # v.id => vehicles[k].spawner # v.spawner

C8_Red(v) ==
    IF Axis(v) = "x" THEN ~horizontalBlue[Crossing(v).light]
    ELSE horizontalBlue[Crossing(v).light]

C8_LightStop ==
    [][ (lastOp'.op = "frame" /\ gameState' = "playing")
            => \A k \in 1..Len(vehicles) :
                 LET v == vehicles[k]
                     d == (Crossing(v).stopLine - v.pos) * Dir(v)
                 IN (/\ v.passedLights < 2
                     /\ (v.pos - Crossing(v).intersectionCenter) * Dir(v) <= 0
                     /\ C8_Alone(v)
                     /\ v.id \in Ids(vehicles'))
                    => IF C8_Red(v) /\ 0 < d /\ d < 2 * 2
                       THEN ById(vehicles', v.id).pos = v.pos
                       ELSE ById(vehicles', v.id).pos = v.pos + 2 * Dir(v) ]_vars

C8_Witness ==
    /\ lastOp.op = "frame" /\ budget.frame = MaxFrames - 2
    /\ \E k \in 1..Len(vehicles) :
         /\ vehicles[k].spawner = 1 /\ vehicles[k].passedLights = 0
         /\ vehicles[k].pos = -342
         /\ horizontalBlue[Crossing(vehicles[k]).light]

(* C9: passedLights of a vehicle never decreases, grows by at most 1 per   *)
(* step and only in a frame that finds the vehicle strictly past the       *)
(* centre of crossing checkLights[passedLights], and stays within 0..2.    *)
C9_PassedLightsMonotone ==
    /\ [](\A k \in 1..Len(vehicles) : vehicles[k].passedLights \in 0..2)
    /\ [][ \A id \in Ids(vehicles) \cap Ids(vehicles') :
             LET v == ById(vehicles, id)
                 w == ById(vehicles', id)
             IN /\ w.passedLights >= v.passedLights
                /\ w.passedLights <= v.passedLights + 1
                /\ w.passedLights = v.passedLights + 1
                     => /\ lastOp'.op = "frame"
                        /\ v.passedLights < 2
                        /\ (v.pos - Crossing(v).intersectionCenter) * Dir(v) > 0 ]_vars

C9_Witness ==
    /\ lastOp.op = "frame"
    /\ \E k \in 1..Len(vehicles) : vehicles[k].passedLights = 2
    /\ \E k \in 1..Len(vehicles) : vehicles[k].passedLights = 1 /\ vehicles[k].spawner = 3

(* C10: while playing, the number of decrements of timeLeft is the number  *)
(* of whole seconds of wall-clock time elapsed, however far apart the      *)
(* frames are.                                                             *)
C10_TimerFollowsClock ==
    [][ (lastOp'.op = "frame" /\ gameState = "playing")
            => timeLeft - timeLeft' = lastOp'.arg \div 1000 ]_vars


(* C11: when the collision pass of a playing frame ends, no two vehicles   *)
(* left in the list have intersecting boxes.                               *)
C11_NoOverlapAfterPass ==
    (lastOp.op = "frame" /\ lastOp.from = "playing" /\ gameState = "playing")
        => \A i, j \in 1..Len(vehicles) :
             i < j => ~intersectsBox(setFromObject(vehicles[i]), setFromObject(vehicles[j]))


(* C12: the collision box of a vehicle is the footprint of its body only,  *)
(* 2 wide and 4 long with the long side along the travel axis, centred on  *)
(* the vehicle: every collision detected is between two vehicles whose     *)
(* body footprints overlap.                                                *)
C12_BodyBox(v) ==
    [minX |-> PosX(v) - BodyHalfX(v), maxX |-> PosX(v) + BodyHalfX(v),
     minZ |-> PosZ(v) - BodyHalfZ(v), maxZ |-> PosZ(v) + BodyHalfZ(v)]

C12_BodyOnlyBox ==
    \A k \in 1..Len(events) :
        intersectsBox(C12_BodyBox(events[k].vA), C12_BodyBox(events[k].vB))


(* C13: in a frame that runs the motion loop, a vehicle not stopped by a   *)
(* light is stopped by car-following exactly when some other vehicle of    *)
(* the list with its axis, its direction and a lateral offset less than 1  *)
(* away is ahead of it by a distance d, 0 < d < 5, the other vehicle's     *)
(* position being the one the list holds when the vehicle is processed     *)
(* (the loop runs from the last index down); a vehicle that is not stopped *)
(* advances by exactly speed x dir, a stopped one keeps its position.      *)
C13_After(id) ==
    {vehicles'[k] : k \in {m \in 1..Len(vehicles') : vehicles'[m].id = id}}
      \cup {events'[k].vA : k \in {m \in 1..Len(events') : events'[m].vA.id = id}}
      \cup {events'[k].vB : k \in {m \in 1..Len(events') : events'[m].vB.id = id}}

C13_Lane(v, w) ==
    /\ v.axis = w.axis /\ v.dir = w.dir
    /\ Abs(v.ortho - w.ortho) < 10

C13_Seen(k) ==
    {vehicles[j].pos : j \in {m \in 1..(k - 1) : C13_Lane(vehicles[k], vehicles[m])}}
      \cup UNION {{w.pos : w \in C13_After(vehicles[j].id)} :
                    j \in {m \in (k + 1)..Len(vehicles) : C13_Lane(vehicles[k], vehicles[m])}}

C13_LightStop(v) ==
    /\ v.passedLights < 2
    /\ (v.pos - Crossing(v).intersectionCenter) * v.dir <= 0
    /\ C8_Red(v)
    /\ 0 < (Crossing(v).stopLine - v.pos) * v.dir
    /\ (Crossing(v).stopLine - v.pos) * v.dir < 4

C13_CarFollowing ==
    [][ (lastOp'.op = "frame" /\ gameState' = "playing")
            => \A k \in 1..Len(vehicles) : \A w \in C13_After(vehicles[k].id) :
                 LET v == vehicles[k]
                     gap == \E p \in C13_Seen(k) :
                               0 < (p - v.pos) * v.dir /\ (p - v.pos) * v.dir < 50
                 IN w.pos = IF C13_LightStop(v) \/ gap THEN v.pos ELSE v.pos + 2 * v.dir ]_vars

C13_Witness ==
    /\ lastOp.op = "frame" /\ budget.frame = MaxFrames - 2
    /\ \E k \in 1..Len(vehicles) : vehicles[k].id = 2 /\ vehicles[k].pos = -342
    /\ \E k \in 1..Len(vehicles) : vehicles[k].id = 3 /\ vehicles[k].pos = -390


(* C14: the frame in which the state leaves playing moves, despawns and    *)
(* collides no vehicle and leaves score as it was: the timer check comes   *)
(* before the logic updates, which that frame skips.                       *)
C14_TimerBeforeMotion ==
    [][ (gameState = "playing" /\ gameState' # "playing")
            => /\ vehicles' = vehicles
               /\ score' = score
               /\ events' = <<>>
               /\ explosions' = updateExplosions(explosions) ]_vars

C14_Witness ==
    /\ lastOp.op = "frame" /\ lastOp.from = "playing"
    /\ gameState = "over" /\ score = targetScore - crashScore
    /\ vehicles = EndVehicles


(* C15: the motion loop of a frame gives the result of a simultaneous      *)
(* update: every vehicle takes its stop decision from the positions all    *)
(* vehicles had when the frame started.                                    *)
C15_SimultaneousUpdate ==
    [][ (lastOp'.op = "frame" /\ gameState' = "playing")
            => \A k \in 1..Len(vehicles) : \A w \in C13_After(vehicles[k].id) :
                 LET v == vehicles[k]
                     gap == \E j \in 1..Len(vehicles) :
                               /\ j # k
                               /\ C13_Lane(v, vehicles[j])
                               /\ 0 < (vehicles[j].pos - v.pos) * v.dir
                               /\ (vehicles[j].pos - v.pos) * v.dir < 50
                 IN w.pos = IF C13_LightStop(v) \/ gap THEN v.pos ELSE v.pos + 2 * v.dir ]_vars


(* C16: a vehicle that overlaps several earlier-added vehicles is paired   *)
(* with the most recently added of them: no vehicle listed between the two *)
(* vehicles of a collision, and still listed when the frame ends, has a    *)
(* box intersecting the box of the later-added vehicle of the pair.        *)
C16_Index(id) == CHOOSE k \in 1..Len(vehicles) : vehicles[k].id = id

C16_PairsMostRecent ==
    [][ lastOp'.op = "frame"
            => \A e \in 1..Len(events') : \A m \in 1..Len(vehicles') :
                 LET vA == events'[e].vA
                     vB == events'[e].vB
                     w == vehicles'[m]
                 IN (/\ w.id \in Ids(vehicles)
                     /\ C16_Index(vB.id) < C16_Index(w.id)
                     /\ C16_Index(w.id) < C16_Index(vA.id))
                    => ~intersectsBox(setFromObject(vA), setFromObject(w)) ]_vars


(* C17: the route of every spawned vehicle has exactly 2 crossings in      *)
(* travel order, each with an existing light, the one created for the      *)
(* intersection of the vehicle's road with the crossing's centre, and a    *)
(* stop line at the centre minus (perpendicular road half-width + 2) x     *)
(* dir: 14 before the centre for axis z, 10 for axis x.                    *)
C17_RoadOf(v) == CHOOSE r \in {-200, 200} : Abs(v.ortho - r) <= 60

C17_Intersection(v, c) ==
    IF v.axis = "z" THEN [x |-> C17_RoadOf(v), z |-> c.intersectionCenter]
    ELSE [x |-> c.intersectionCenter, z |-> C17_RoadOf(v)]

C17_RouteOk(v) ==
    /\ Len(v.checkLights) = 2
    /\ (v.checkLights[2].intersectionCenter - v.checkLights[1].intersectionCenter) * v.dir > 0
    /\ (v.checkLights[1].intersectionCenter + 700 * v.dir) * v.dir > 0
    /\ \A n \in 1..2 :
         LET c == v.checkLights[n]
         IN /\ c.intersectionCenter \in {-200, 200}
            /\ c.light \in 1..4
            /\ trafficLights[c.light]
                 = createTrafficLight(C17_Intersection(v, c).x, C17_Intersection(v, c).z)
            /\ c.stopLine = c.intersectionCenter - (IF v.axis = "z" THEN 140 ELSE 100) * v.dir

C17_RoutesResolved == \A k \in 1..Len(vehicles) : C17_RouteOk(vehicles[k])

C17_Witness ==
    /\ lastOp.op = "spawn"
    /\ \E k, m \in 1..Len(vehicles) :
         /\ vehicles[k].spawner = 4 /\ vehicles[k].pos = 700
         /\ vehicles[m].spawner = 6 /\ vehicles[m].pos = 700


(* C18: a vehicle whose position along its axis is beyond 80 in absolute   *)
(* value after its motion step is removed in that same frame: no vehicle   *)
(* listed, and no vehicle the collision pass pairs, is beyond 80; a        *)
(* vehicle leaves the list only by that removal or by a collision; and the *)
(* removal leaves score alone (score grows by 100 per collision only).     *)
C18_Despawn ==
    /\ [](\A k \in 1..Len(vehicles) : Abs(vehicles[k].pos) <= 800)
    /\ [][ (lastOp'.op = "frame" /\ gameState' = "playing")
               => /\ \A k \in 1..Len(vehicles) :
                       LET v == vehicles[k]
                       IN /\ \A w \in C13_After(v.id) : Abs(w.pos) <= 800
                          /\ (/\ Abs(v.pos + 2 * v.dir) > 800
                              /\ \A j \in 1..Len(vehicles) :
                                   j # k => ~C13_Lane(v, vehicles[j]))
                               => C13_After(v.id) = {}
                          /\ C13_After(v.id) = {} => Abs(v.pos + 2 * v.dir) > 800
                  /\ score' = score + 100 * Len(events') ]_vars

C18_Witness ==
    /\ lastOp.op = "frame" /\ budget.frame = MaxFrames - 2
    /\ events = <<>> /\ score = 0
    /\ Ids(vehicles) = {2, 3, 4}


(* C19: timeLeft stays within 0..60 and changes only by the decrement of   *)
(* 1 a frame makes; and with frames that find at least 1000 ms elapsed     *)
(* coming forever and no restart, a playing session reaches clear or over. *)
C19_TimerTerminates ==
    /\ [](timeLeft \in 0..60)
    /\ [][ \/ timeLeft' = timeLeft
           \/ /\ timeLeft' = timeLeft - 1
              /\ lastOp'.op = "frame" /\ lastOp'.arg >= 1000 ]_vars
    /\ (gameState = "playing") ~> (gameState \in {"clear", "over"})

C19_Witness ==
    /\ lastOp.op = "frame" /\ lastOp.from = "playing"
    /\ gameState = "over" /\ timeLeft = 0
    /\ budget.frame = MaxFrames /\ budget.event = 0


(* C20: the collision pass never reads an index beyond the end of the      *)
(* list: no frame ends by throwing in it.                                  *)
C20_FrameCompletes == ~threw


(* C21: in every state between two callbacks, 0 <= timeLeft <= 60; the     *)
(* state is playing exactly when timeLeft > 0; clear implies score >=      *)
(* 2000; over implies score < 2000; score is a non-negative multiple of    *)
(* 100.                                                                    *)
C21_SessionInvariants ==
    /\ timeLeft \in 0..60
    /\ (gameState = "playing") <=> (timeLeft > 0)
    /\ gameState \in {"playing", "clear", "over"}
    /\ gameState = "clear" => score >= 2000
    /\ gameState = "over" => score < 2000
    /\ score >= 0 /\ score % 100 = 0

C21_Witness ==
    /\ lastOp.op = "frame" /\ lastOp.from = "playing"
    /\ gameState = "clear" /\ timeLeft = 0
    /\ score = 2100


(* C22: a vehicle whose next crossing's light is red for its axis while it *)
(* is still before the stop line never moves past that stop line: a frame  *)
(* leaves it before the line, having advanced by speed or not at all, and  *)
(* once its distance to the line is inside the open window                 *)
(* 0 < distance < 2 x speed it keeps its position (and its passedLights)   *)
(* in every frame that finds the light red.                                *)
C22_Dist(v, w) == (Crossing(v).stopLine - w.pos) * v.dir

C22_NeverPassesRed ==
    [][ \A id \in Ids(vehicles) \cap Ids(vehicles') :
          LET v == ById(vehicles, id)
              w == ById(vehicles', id)
          IN (v.passedLights < 2 /\ C8_Red(v) /\ C22_Dist(v, v) > 0)
             => /\ C22_Dist(v, w) > 0
                /\ w.passedLights = v.passedLights
                /\ w.pos \in {v.pos, v.pos + 2 * v.dir}
                /\ C22_Dist(v, v) < 2 * 2 => w.pos = v.pos ]_vars

C22_Witness ==
    /\ lastOp.op = "frame" /\ lastOp.from = "playing" /\ gameState = "playing"
    /\ horizontalBlue = RedLights
    /\ \E k \in 1..Len(vehicles) :
         vehicles[k].id = 1 /\ vehicles[k].pos = -342 /\ vehicles[k].passedLights = 0
    /\ \E k \in 1..Len(vehicles) :
         vehicles[k].id = 2 /\ vehicles[k].pos = 302 /\ vehicles[k].passedLights = 0


(* C23: the list order agrees with the lane order: of two vehicles of the  *)
(* same entry point, the one added earlier (the lower id) has the lower    *)
(* list index and is never behind the one added later along the travel     *)
(* direction.                                                              *)
C23_ListOrderIsLaneOrder ==
    \A i \in 1..Len(vehicles) : \A j \in 1..Len(vehicles) :
        (vehicles[i].spawner = vehicles[j].spawner /\ vehicles[i].id < vehicles[j].id)
            => /\ i < j
               /\ (vehicles[i].pos - vehicles[j].pos) * vehicles[i].dir >= 0

====
